---- MODULE Spec2Model ----
(***************************************************************************)
(* Model of app/lib/pdf2img-cdn.ts: the PDF.js loader (local import first, *)
(* CDN script injection as fallback, memoised in the module variables      *)
(* isLoading / loadPromise and in window.pdfjsLib) and convertPdfToImage.  *)
(* Every await of the source is a suspension point: the code between two   *)
(* awaits is one action, and the settlement of the awaited external        *)
(* operation (import, script event, file read, parse, render, toBlob) is   *)
(* chosen by the environment.                                              *)
(***************************************************************************)
EXTENDS Integers, Sequences, FiniteSets, TLC

\* ---- bounds ----
NumCalls == 2
MaxPages == 2

Calls == 1..NumCalls

\* ---- program constants ----
PdfType == "application/pdf"
MaxFileSize == 50 * 1024 * 1024

\* ---- input files ----
NullFile == [isNull |-> TRUE, type |-> "", size |-> 0]
MkFile(t, s) == [isNull |-> FALSE, type |-> t, size |-> s]
Files ==
    {NullFile} \cup
    {MkFile(t, s) : t \in {PdfType, "image/png"}, s \in {0, 1, MaxFileSize + 1}}

\* ---- error messages: a message is the sequence of its template pieces ----
NoError == <<>>
NullDerefMsg == <<"Cannot read properties of null (reading 'name')">>
NoFileMsg == <<"No file provided">>
InvalidTypeMsg(t) == <<"Invalid file type: ", t, ". Expected: application/pdf">>
EmptyMsg == <<"File is empty">>
TooLargeMsg == <<"File is too large (max 50MB)">>
NoPagesMsg == <<"PDF has no pages">>
NoContextMsg == <<"Failed to get 2D context from canvas">>
BlobMsg == <<"Failed to create image blob or blob is empty">>
CdnScriptMsg == <<"Failed to load PDF.js from CDN">>

\* messages of the errors raised by the external operations
LocalCauses == {<<"Cannot find module 'pdfjs-dist/build/pdf.mjs'">>,
                <<"error loading dynamically imported module">>}
CdnImportCauses == {<<"Failed to fetch dynamically imported module">>}
ReadMsg == <<"The requested file could not be read">>
ParseMsg == <<"Invalid PDF structure.">>
PageMsg == <<"Invalid page request.">>
RenderMsg == <<"Rendering cancelled">>

CombinedErrorCdnOnly(localMsg, cdnMsg) ==
    <<"PDF.js loading failed: CDN: ">> \o cdnMsg

CombinedError(localMsg, cdnMsg) ==
    <<"PDF.js loading failed: Local: ">> \o localMsg \o <<", CDN: ">> \o cdnMsg

\* ---- validation, lines 115-132: the message thrown, NoError when valid ----
ValidationErrorNoSizeLimit(f) ==
    IF f.isNull THEN NullDerefMsg
    ELSE IF f.type # PdfType THEN InvalidTypeMsg(f.type)
    ELSE IF f.size = 0 THEN EmptyMsg
    ELSE NoError

ValidationError(f) ==
    IF f.isNull THEN NullDerefMsg          \* file.name on line 115 throws first
    ELSE IF f.type # PdfType THEN InvalidTypeMsg(f.type)
    ELSE IF f.size = 0 THEN EmptyMsg
    ELSE IF f.size > MaxFileSize THEN TooLargeMsg
    ELSE NoError

\* ---- results ----
Pending == [state |-> "pending", imageUrl |-> "", file |-> NullFile, error |-> NoError]

CatchResultRethrow(msg) ==
    [state |-> "rejected", imageUrl |-> "", file |-> NullFile, error |-> msg]

CatchResult(msg) ==
    [state |-> "resolved", imageUrl |-> "", file |-> NullFile, error |-> msg]

\* blobSize = -1 stands for a null blob
EncodeResultNoError(blobSize) ==
    IF blobSize > 0
    THEN [state |-> "resolved", imageUrl |-> "blob:url",
          file |-> MkFile("image/png", blobSize), error |-> NoError]
    ELSE [state |-> "resolved", imageUrl |-> "", file |-> NullFile, error |-> NoError]

EncodeResult(blobSize) ==
    IF blobSize > 0
    THEN [state |-> "resolved", imageUrl |-> "blob:url",
          file |-> MkFile("image/png", blobSize), error |-> NoError]
    ELSE [state |-> "resolved", imageUrl |-> "", file |-> NullFile, error |-> BlobMsg]

VARIABLES
    pc,           \* position of each convertPdfToImage call
    file,         \* its argument
    result,       \* the promise it returned: state and value
    lib,          \* the engine loadPdfJs returned: "none", "local" or "cdn"
    localErr,     \* localError while loadPdfJs is in its catch block
    waitOn,       \* the load promise loadPdfJs is awaiting (0: none)
    failure,      \* history: the step of the call that failed
    localOutcome, \* history: outcome of the call's loadPdfJsLocal
    isLoading,    \* module variable
    loadPromise,  \* module variable: index into loads, 0 for null
    windowLib,    \* window.pdfjsLib is set
    loads         \* the promises created on line 26, in creation order

callVars == <<pc, file, result, lib, localErr, waitOn, failure, localOutcome>>
loaderVars == <<isLoading, loadPromise, windowLib, loads>>
vars == <<pc, file, result, lib, localErr, waitOn, failure, localOutcome,
          isLoading, loadPromise, windowLib, loads>>

Init ==
    /\ pc = [c \in Calls |-> "idle"]
    /\ file = [c \in Calls |-> NullFile]
    /\ result = [c \in Calls |-> Pending]
    /\ lib = [c \in Calls |-> "none"]
    /\ localErr = [c \in Calls |-> NoError]
    /\ waitOn = [c \in Calls |-> 0]
    /\ failure = [c \in Calls |-> "none"]
    /\ localOutcome = [c \in Calls |-> "none"]
    /\ isLoading = FALSE
    /\ loadPromise = 0
    /\ windowLib = FALSE
    /\ loads = <<>>

\* the catch block of convertPdfToImage, lines 218-226
Throw(c, step, msg) ==
    /\ pc' = [pc EXCEPT ![c] = "done"]
    /\ result' = [result EXCEPT ![c] = CatchResult(msg)]
    /\ failure' = [failure EXCEPT ![c] = step]
    /\ localErr' = [localErr EXCEPT ![c] = NoError]
    /\ waitOn' = [waitOn EXCEPT ![c] = 0]
    /\ UNCHANGED lib

\* the call obtained its engine and goes on to file.arrayBuffer(), line 137
GotLib(c, which) ==
    /\ pc' = [pc EXCEPT ![c] = "readFile"]
    /\ lib' = [lib EXCEPT ![c] = which]
    /\ localErr' = [localErr EXCEPT ![c] = NoError]
    /\ waitOn' = [waitOn EXCEPT ![c] = 0]
    /\ UNCHANGED <<result, failure>>

\* convertPdfToImage up to its first await: validation, then loadPdfJs ->
\* loadPdfJsLocal -> import("pdfjs-dist")
Convert(c) ==
    /\ pc[c] = "idle"
    /\ \E f \in Files :
        /\ file' = [file EXCEPT ![c] = f]
        /\ IF ValidationError(f) # NoError
           THEN Throw(c, "validation", ValidationError(f))
           ELSE /\ pc' = [pc EXCEPT ![c] = "importStd"]
                /\ UNCHANGED <<result, lib, localErr, waitOn, failure>>
    /\ UNCHANGED <<localOutcome, loaderVars>>

\* ---- loadPdfJsLocal, lines 68-94 ----

\* import("pdfjs-dist") settles, lines 75-81: on success the worker source is
\* set and the library returned; on failure the build path is imported
ImportStdSettleThenCDN(c) ==
    /\ pc[c] = "importStd"
    /\ \/ /\ localOutcome' = [localOutcome EXCEPT ![c] = "ok"]
          /\ pc' = [pc EXCEPT ![c] = "callCDN"]
          /\ UNCHANGED <<lib, localErr, waitOn, result, failure>>
       \/ /\ pc' = [pc EXCEPT ![c] = "importBuild"]
          /\ UNCHANGED <<lib, localErr, waitOn, result, failure, localOutcome>>
    /\ UNCHANGED <<file, loaderVars>>

ImportStdSettle(c) ==
    /\ pc[c] = "importStd"
    /\ \/ /\ localOutcome' = [localOutcome EXCEPT ![c] = "ok"]
          /\ GotLib(c, "local")
       \/ /\ pc' = [pc EXCEPT ![c] = "importBuild"]
          /\ UNCHANGED <<lib, localErr, waitOn, result, failure, localOutcome>>
    /\ UNCHANGED <<file, loaderVars>>

\* import("pdfjs-dist/build/pdf.mjs") settles, lines 79-93 and 99-101: on
\* failure the error is rethrown and caught in loadPdfJs as localError
ImportBuildSettle(c) ==
    /\ pc[c] = "importBuild"
    /\ \/ /\ localOutcome' = [localOutcome EXCEPT ![c] = "ok"]
          /\ GotLib(c, "local")
       \/ \E e \in LocalCauses :
            /\ localOutcome' = [localOutcome EXCEPT ![c] = "fail"]
            /\ localErr' = [localErr EXCEPT ![c] = e]
            /\ pc' = [pc EXCEPT ![c] = "callCDN"]
            /\ UNCHANGED <<lib, waitOn, result, failure>>
    /\ UNCHANGED <<file, loaderVars>>

\* ---- loadPdfJsFromCDN, lines 17-66 ----

NewLoad(c) ==
    [by |-> c, script |-> "pending", imp |-> "none", st |-> "pending", reason |-> NoError]

\* line 18
HasGlobalLib == windowLib

\* line 22
CacheHitNever == FALSE

CacheHit == loadPromise # 0

\* the synchronous body of loadPdfJsFromCDN called from loadPdfJs line 103
CallCDN(c) ==
    /\ pc[c] = "callCDN"
    /\ IF HasGlobalLib
       THEN /\ GotLib(c, "cdn")
            /\ UNCHANGED loaderVars
       ELSE IF CacheHit
       THEN /\ pc' = [pc EXCEPT ![c] = "awaitCDN"]
            /\ waitOn' = [waitOn EXCEPT ![c] = loadPromise]
            /\ UNCHANGED <<lib, localErr, result, failure, loaderVars>>
       ELSE /\ isLoading' = TRUE
            /\ loads' = Append(loads, NewLoad(c))
            /\ loadPromise' = Len(loads) + 1
            /\ pc' = [pc EXCEPT ![c] = "awaitCDN"]
            /\ waitOn' = [waitOn EXCEPT ![c] = Len(loads) + 1]
            /\ UNCHANGED <<lib, localErr, result, failure, windowLib>>
    /\ UNCHANGED <<file, localOutcome>>

\* script.onload, lines 32-53; whether the script exposed window.pdfjsLib is
\* the environment's choice
ScriptOnLoadClearsCache(i) ==
    /\ i \in 1..Len(loads)
    /\ loads[i].script = "pending"
    /\ \E exposed \in BOOLEAN :
        IF windowLib \/ exposed
        THEN /\ windowLib' = TRUE
             /\ isLoading' = FALSE
             /\ loads' = [loads EXCEPT ![i].script = "loaded", ![i].st = "resolved"]
        ELSE /\ loads' = [loads EXCEPT ![i].script = "loaded", ![i].imp = "pending"]
             /\ UNCHANGED <<windowLib, isLoading>>
    /\ loadPromise' = 0
    /\ UNCHANGED callVars

ScriptOnLoad(i) ==
    /\ i \in 1..Len(loads)
    /\ loads[i].script = "pending"
    /\ \E exposed \in BOOLEAN :
        IF windowLib \/ exposed
        THEN /\ windowLib' = TRUE
             /\ isLoading' = FALSE
             /\ loads' = [loads EXCEPT ![i].script = "loaded", ![i].st = "resolved"]
        ELSE /\ loads' = [loads EXCEPT ![i].script = "loaded", ![i].imp = "pending"]
             /\ UNCHANGED <<windowLib, isLoading>>
    /\ UNCHANGED <<loadPromise, callVars>>

\* script.onerror, lines 55-60
ScriptOnErrorNoReject(i) ==
    /\ i \in 1..Len(loads)
    /\ loads[i].script = "pending"
    /\ isLoading' = FALSE
    /\ loadPromise' = 0
    /\ loads' = [loads EXCEPT ![i].script = "error"]
    /\ UNCHANGED <<windowLib, callVars>>

ScriptOnError(i) ==
    /\ i \in 1..Len(loads)
    /\ loads[i].script = "pending"
    /\ isLoading' = FALSE
    /\ loadPromise' = 0
    /\ loads' = [loads EXCEPT ![i].script = "error", ![i].st = "rejected",
                              ![i].reason = CdnScriptMsg]
    /\ UNCHANGED <<windowLib, callVars>>

\* the dynamic import of line 44 is fulfilled, lines 45-50
CdnImportResolve(i) ==
    /\ i \in 1..Len(loads)
    /\ loads[i].imp = "pending"
    /\ windowLib' = TRUE
    /\ isLoading' = FALSE
    /\ loads' = [loads EXCEPT ![i].imp = "ok", ![i].st = "resolved"]
    /\ UNCHANGED <<loadPromise, callVars>>

\* the dynamic import of line 44 is rejected, line 51
CdnImportReject(i) ==
    /\ i \in 1..Len(loads)
    /\ loads[i].imp = "pending"
    /\ \E e \in CdnImportCauses :
        loads' = [loads EXCEPT ![i].imp = "fail", ![i].st = "rejected", ![i].reason = e]
    /\ UNCHANGED <<isLoading, loadPromise, windowLib, callVars>>

\* ---- loadPdfJs resumes from await loadPdfJsFromCDN(), lines 103-107 ----
CDNResume(c) ==
    /\ pc[c] = "awaitCDN"
    /\ loads[waitOn[c]].st # "pending"
    /\ IF loads[waitOn[c]].st = "resolved"
       THEN GotLib(c, "cdn")
       ELSE Throw(c, "load", CombinedError(localErr[c], loads[waitOn[c]].reason))
    /\ UNCHANGED <<file, localOutcome, loaderVars>>

\* ---- the rest of convertPdfToImage, lines 137-217 ----

\* file.arrayBuffer() settles, lines 137-146
ReadSettle(c) ==
    /\ pc[c] = "readFile"
    /\ \/ /\ pc' = [pc EXCEPT ![c] = "parse"]
          /\ UNCHANGED <<result, failure, lib, localErr, waitOn>>
       \/ Throw(c, "read", ReadMsg)
    /\ UNCHANGED <<file, localOutcome, loaderVars>>

\* loadingTask.promise settles, lines 146-153
ParseSettle(c) ==
    /\ pc[c] = "parse"
    /\ \/ \E numPages \in 0..MaxPages :
            IF numPages = 0
            THEN Throw(c, "pages", NoPagesMsg)
            ELSE /\ pc' = [pc EXCEPT ![c] = "getPage"]
                 /\ UNCHANGED <<result, failure, lib, localErr, waitOn>>
       \/ Throw(c, "parse", ParseMsg)
    /\ UNCHANGED <<file, localOutcome, loaderVars>>

\* pdf.getPage(1) settles, lines 153-185; canvas.getContext may return null
PageSettle(c) ==
    /\ pc[c] = "getPage"
    /\ \/ \E context \in BOOLEAN :
            IF ~context
            THEN Throw(c, "context", NoContextMsg)
            ELSE /\ pc' = [pc EXCEPT ![c] = "render"]
                 /\ UNCHANGED <<result, failure, lib, localErr, waitOn>>
       \/ Throw(c, "page", PageMsg)
    /\ UNCHANGED <<file, localOutcome, loaderVars>>

\* renderTask.promise settles, lines 185-190; canvas.toBlob is called
RenderSettle(c) ==
    /\ pc[c] = "render"
    /\ \/ /\ pc' = [pc EXCEPT ![c] = "toBlob"]
          /\ UNCHANGED <<result, failure, lib, localErr, waitOn>>
       \/ Throw(c, "render", RenderMsg)
    /\ UNCHANGED <<file, localOutcome, loaderVars>>

\* the toBlob callback, lines 191-213; blobSize -1 is a null blob
BlobCallback(c) ==
    /\ pc[c] = "toBlob"
    /\ \E blobSize \in {-1, 0, 1} :
        /\ result' = [result EXCEPT ![c] = EncodeResult(blobSize)]
        /\ failure' = [failure EXCEPT ![c] = IF blobSize > 0 THEN "none" ELSE "encode"]
    /\ pc' = [pc EXCEPT ![c] = "done"]
    /\ UNCHANGED <<file, lib, localErr, waitOn, localOutcome, loaderVars>>

\* the steps the runtime takes once a call has been made
Steps ==
    \/ \E c \in Calls : ImportStdSettle(c)
    \/ \E c \in Calls : ImportBuildSettle(c)
    \/ \E c \in Calls : CallCDN(c)
    \/ \E i \in 1..NumCalls : ScriptOnLoad(i)
    \/ \E i \in 1..NumCalls : ScriptOnError(i)
    \/ \E i \in 1..NumCalls : CdnImportResolve(i)
    \/ \E i \in 1..NumCalls : CdnImportReject(i)
    \/ \E c \in Calls : CDNResume(c)
    \/ \E c \in Calls : ReadSettle(c)
    \/ \E c \in Calls : ParseSettle(c)
    \/ \E c \in Calls : PageSettle(c)
    \/ \E c \in Calls : RenderSettle(c)
    \/ \E c \in Calls : BlobCallback(c)

Next ==
    \/ \E c \in Calls : Convert(c)
    \/ Steps

Spec == Init /\ [][Next]_vars

\* every pending external operation eventually settles and every resumed
\* continuation eventually runs
FairSpec == Spec /\ WF_vars(Steps)

\* ---- helpers of the properties ----

\* sub occurs in s as a contiguous run of pieces
Contains(s, sub) ==
    \E k \in 0..(Len(s) - Len(sub)) : SubSeq(s, k + 1, k + Len(sub)) = sub

LoadIds == 1..Len(loads)
InFlight(i) == loads[i].st = "pending"
PastLoader(c) == pc[c] \in {"readFile", "parse", "getPage", "render", "toBlob", "done"}
Invalid(f) == f.isNull \/ f.type # PdfType \/ f.size = 0 \/ f.size > MaxFileSize

\* the message the validation order of the specification assigns to a file
FirstViolationMsg(f) ==
    IF f.isNull THEN NoFileMsg
    ELSE IF f.type # PdfType THEN InvalidTypeMsg(f.type)
    ELSE IF f.size = 0 THEN EmptyMsg
    ELSE TooLargeMsg

\* C1: the promise returned by convertPdfToImage is never rejected, and once
\* the call has finished it is resolved with a result whose error field is set
\* whenever any step of the call failed (validation, null file included,
\* engine load, read, parse, zero pages, page fetch, context, render, encode).
C1_NeverThrows ==
    \A c \in Calls :
        /\ result[c].state # "rejected"
        /\ pc[c] = "done" =>
            /\ result[c].state = "resolved"
            /\ failure[c] # "none" => result[c].error # NoError

C1_Witness ==
    \E c, d \in Calls :
        /\ pc[c] = "done" /\ file[c].isNull
        /\ pc[d] = "done" /\ failure[d] \in {"load", "read", "parse", "page", "context", "render", "encode"}

\* C2: every returned result is either a success (file non-null, imageUrl
\* non-empty, no error) or a failure (error present, file null, imageUrl
\* empty), never both and never neither.
C2_ResultShape ==
    \A c \in Calls :
        pc[c] = "done" =>
            LET r == result[c]
                ok == ~r.file.isNull /\ r.imageUrl # "" /\ r.error = NoError
                ko == r.error # NoError /\ r.file.isNull /\ r.imageUrl = ""
            IN  (ok \/ ko) /\ ~(ok /\ ko)

C2_Witness ==
    \E c, d \in Calls :
        /\ pc[c] = "done" /\ ~result[c].file.isNull
        /\ pc[d] = "done" /\ failure[d] = "encode"

\* C3 (as stated): a call that fails validation reports the message of the
\* first violated check in the order null, type, zero size, size limit, with
\* 'No file provided' for a null file.
C3_FirstViolationReported ==
    \A c \in Calls :
        (pc[c] = "done" /\ Invalid(file[c])) =>
            result[c].error = FirstViolationMsg(file[c])

\* C4 (as stated): with the engine not cached at the start, the concurrent
\* conversions inject at most one script element in total.
C4_AtMostOneScript == Len(loads) <= 1

\* C4 (amended): a script element is injected only when every script injected
\* before it has fired its error event, so the conversions inject at most one
\* script unless an injected script fails to load, and never more scripts than
\* there are conversions.
C4_ScriptOnlyAfterError ==
    /\ \A i, j \in LoadIds : i < j => loads[i].script = "error"
    /\ Len(loads) <= NumCalls

C4_Witness ==
    /\ Len(loads) = 2
    /\ loads[1].script = "error"
    /\ loads[1].by # loads[2].by

\* C5: at most one remote load is in flight at any time; while the promise in
\* loadPromise is in flight window.pdfjsLib is unset and every call of
\* loadPdfJsFromCDN returns that promise without adding a script; a settled
\* promise never changes and every caller handed a promise resumes with that
\* promise's outcome (the CDN engine, or an error carrying its reason), so
\* callers handed the same promise observe the same outcome.
C5_InFlightInv ==
    /\ Cardinality({i \in LoadIds : InFlight(i)}) <= 1
    /\ \A i \in LoadIds : InFlight(i) => (loadPromise = i /\ ~windowLib)
    /\ \A c \in Calls : pc[c] = "awaitCDN" => waitOn[c] \in LoadIds

C5_SingleFlight ==
    /\ []C5_InFlightInv
    /\ [][ (loadPromise # 0 /\ InFlight(loadPromise)) =>
             \A c \in Calls :
                (pc[c] = "callCDN" /\ pc'[c] # "callCDN") =>
                    /\ pc'[c] = "awaitCDN"
                    /\ waitOn'[c] = loadPromise
                    /\ loads' = loads /\ loadPromise' = loadPromise ]_vars
    /\ [][ \A i \in LoadIds : ~InFlight(i) => loads'[i] = loads[i] ]_vars
    /\ [][ \A c \in Calls :
             (pc[c] = "awaitCDN" /\ pc'[c] # "awaitCDN") =>
                 IF loads[waitOn[c]].st = "resolved"
                 THEN lib'[c] = "cdn" /\ failure'[c] = "none"
                 ELSE /\ loads[waitOn[c]].st = "rejected"
                      /\ lib'[c] = "none" /\ failure'[c] = "load"
                      /\ Contains(result'[c].error, loads[waitOn[c]].reason) ]_vars

C5_Witness ==
    \E c, d \in Calls :
        /\ c # d
        /\ pc[c] = "awaitCDN" /\ pc[d] = "awaitCDN"
        /\ waitOn[c] = waitOn[d]
        /\ InFlight(waitOn[c])

\* C6: a call reaches loadPdfJsFromCDN, injects a script or has the CDN module
\* imported only after its own local attempt failed; a call whose local
\* attempt succeeded holds the local engine, was handed no load promise,
\* injected nothing, and the step that completes its local attempt leaves
\* isLoading, loadPromise, window.pdfjsLib and the load promises unchanged.
C6_LocalFirstInv ==
    /\ \A i \in LoadIds : localOutcome[loads[i].by] = "fail"
    /\ \A c \in Calls :
        /\ (pc[c] \in {"callCDN", "awaitCDN"} \/ waitOn[c] # 0 \/ lib[c] = "cdn")
              => localOutcome[c] = "fail"
        /\ localOutcome[c] = "ok" =>
              /\ lib[c] = "local"
              /\ waitOn[c] = 0
              /\ \A i \in LoadIds : loads[i].by # c

C6_LocalFirst ==
    /\ []C6_LocalFirstInv
    /\ [][ \A c \in Calls :
             (localOutcome[c] = "none" /\ localOutcome'[c] = "ok") =>
                 UNCHANGED loaderVars ]_vars

C6_Witness ==
    \E c, d \in Calls :
        /\ localOutcome[c] = "ok" /\ PastLoader(c)
        /\ localOutcome[d] = "fail" /\ loadPromise # 0
        /\ InFlight(loadPromise) /\ loads[loadPromise].by = d

\* C7: loadPdfJs fails exactly when the local attempt failed and the remote
\* load it was handed is rejected, and the error then reported carries the
\* local cause and the CDN cause; a call that left loadPdfJs otherwise holds
\* an engine, and a call whose local attempt succeeded never fails there.
C7_LoadFailureInv ==
    \A c \in Calls :
        /\ failure[c] = "load" =>
              /\ localOutcome[c] = "fail" /\ lib[c] = "none"
              /\ \E i \in LoadIds : loads[i].st = "rejected"
              /\ \E l \in LocalCauses : Contains(result[c].error, l)
        /\ (PastLoader(c) /\ ~Invalid(file[c]) /\ failure[c] # "load") =>
              lib[c] \in {"local", "cdn"}

C7_LoadFailure ==
    /\ []C7_LoadFailureInv
    /\ [][ \A c \in Calls :
             (pc[c] = "awaitCDN" /\ pc'[c] # "awaitCDN") =>
                 /\ (failure'[c] = "load") <=> (loads[waitOn[c]].st = "rejected")
                 /\ failure'[c] = "load" =>
                       /\ Contains(result'[c].error, localErr[c])
                       /\ Contains(result'[c].error, loads[waitOn[c]].reason)
                 /\ failure'[c] # "load" => lib'[c] = "cdn" ]_vars

C7_Witness ==
    \E c, d \in Calls :
        /\ failure[c] = "load" /\ Contains(result[c].error, CdnScriptMsg)
        /\ failure[d] = "load" /\ \E e \in CdnImportCauses : Contains(result[d].error, e)
        /\ \E l \in LocalCauses :
              Contains(result[c].error, l) /\ ~Contains(result[d].error, l)

\* C8 (as stated): a remote load that ended in failure is never kept in the
\* loader state: loadPromise does not refer to a rejected promise, and
\* isLoading is false once no load is in flight.
C8_FailureResetsLoader ==
    /\ loadPromise # 0 => loads[loadPromise].st # "rejected"
    /\ (\A i \in LoadIds : ~InFlight(i)) => ~isLoading

\* C9: a call whose input fails a validation check has finished with an error
\* result without a local import, without being handed a load promise and
\* without injecting a script, and its step leaves isLoading, loadPromise,
\* window.pdfjsLib and the load promises unchanged.
C9_InvalidInv ==
    \A c \in Calls :
        (pc[c] # "idle" /\ Invalid(file[c])) =>
            /\ pc[c] = "done"
            /\ result[c].error # NoError
            /\ localOutcome[c] = "none"
            /\ lib[c] = "none"
            /\ waitOn[c] = 0
            /\ \A i \in LoadIds : loads[i].by # c

C9_NoLoadOnInvalid ==
    /\ []C9_InvalidInv
    /\ [][ \A c \in Calls :
             (pc[c] = "idle" /\ pc'[c] # "idle" /\ Invalid(file'[c])) =>
                 UNCHANGED loaderVars ]_vars

C9_Witness ==
    \E c, d \in Calls :
        /\ pc[c] = "done" /\ file[c].size > MaxFileSize /\ file[c].type = PdfType
        /\ pc[d] = "awaitCDN" /\ loadPromise # 0 /\ InFlight(loadPromise)

\* C10: under FairSpec every call that was made eventually resolves.
C10_EveryCallResolves ==
    \A c \in Calls : (pc[c] # "idle") ~> (pc[c] = "done")

C10_Witness ==
    \E c, d \in Calls :
        /\ c # d
        /\ pc[c] = "done" /\ pc[d] = "done"
        /\ Len(loads) = 1
        /\ failure[c] = "load" /\ failure[d] = "load"

====
